---------------------------- MODULE Spec2Model ----------------------------
(***************************************************************************)
(* base16-builder-python: the xterm colour approximation                   *)
(* (pybase16_builder/xterm.py) and the build driver                        *)
(* (pybase16_builder/builder.py).                                          *)
(*                                                                         *)
(* approx_xterm_colors builds one row of colour differences per input      *)
(* colour against the xterm palette, hands the matrix to                   *)
(* munkres.Munkres().compute and yields column + 16 for every (row,        *)
(* column) pair returned.  The Munkres object is modelled step by step     *)
(* (pad_matrix, compute, __step1 .. __step6 and their helpers) as the      *)
(* munkres 1.0.x module the call at xterm.py:9-10 executes.                *)
(*                                                                         *)
(* Python lists are functions over 0..len-1, so that indices and the       *)
(* final "column + 16" are the program's own numbers.                      *)
(***************************************************************************)
EXTENDS Integers, Sequences, FiniteSets, TLC

VARIABLES
    delta,        \* color_diff restricted to the model's colours (read only)
    pc,           \* position of each call of approx_xterm_colors
    hex_rgbs,     \* the argument of each call
    matrix,       \* cost matrices, by owner
    solver,       \* Munkres instances, by owner
    indexes,      \* the list compute returned, per call
    out,          \* the values yielded so far, per call
    xterm,        \* format_scheme: base number -> stored xterm value, per call
    error,        \* the exception a call ended with, "" if none
    bpc,            \* position of build()
    template_dirs,  \* build: the template directories found or given
    scheme_files,   \* build: the list get_scheme_files returned
    out_dir,        \* the file system's view of base_output_dir
    loaded,         \* the TemplateGroup objects constructed so far
    job,            \* the job of each scheme file, by position in the list
    written,        \* the output files written, as <<position, group>>
    printed,        \* whether 'Finished building process.' was printed
    berror          \* the exception build() ended with, "" if none

xvars == <<delta, pc, hex_rgbs, matrix, solver, indexes, out, xterm, error>>
bvars == <<bpc, template_dirs, scheme_files, out_dir, loaded, job, written,
           printed, berror>>
vars == <<xvars, bvars>>

-----------------------------------------------------------------------------
\* Bounds of the model.

\* Number of palette entries (columns) the cost matrix is built against.
NumCands == 2
\* Largest colour difference in the table.
MaxCost == 2

\* Longest input list: one more than the columns, so that the case of more
\* rows than columns is reached.
MaxLen == NumCands + 1

\* Most scheme files a build finds.
MaxSchemes == 3
\* Worker processes of the pool (ProcessPoolExecutor(): the machine's CPUs).
MaxWorkers == 2

\* The template directories a build may find or be given.
TemplateDirs == {"templates/vim", "templates/shell"}

\* The input colours the calls draw from (hex strings as in a scheme file).
Colors == {"181818", "ab4642"}

\* The callers: one call of approx_xterm_colors per scheme being built.
Procs == {1, 2}

-----------------------------------------------------------------------------
\* Python helpers.

Range0(n) == 0 .. (n - 1)

\* range(start, stop, step) for a positive step, as a sequence.
RECURSIVE PyRange(_, _, _)
PyRange(start, stop, step) ==
    IF start >= stop THEN << >>
    ELSE <<start>> \o PyRange(start + step, stop, step)

\* Python's reading of a list index: a negative index counts from the end.
PyIdx(j, n) == IF j < 0 THEN j + n ELSE j

RECURSIVE Flatten(_)
Flatten(seqs) ==
    IF seqs = << >> THEN << >> ELSE Head(seqs) \o Flatten(Tail(seqs))

Min(S) == CHOOSE x \in S : \A y \in S : x <= y
Max(a, b) == IF a >= b THEN a ELSE b

-----------------------------------------------------------------------------
\* xterm_non_system_colors: the palette generator, in the order of its loops.

color_vals == <<0, 95, 135, 175, 215, 255>>

\* for b in color_vals: yield (r, g, b)
CubeB(r, g) == [b \in 1..Len(color_vals) |-> <<r, g, color_vals[b]>>]
\* for g in color_vals: ...
CubeG(r) == Flatten([g \in 1..Len(color_vals) |-> CubeB(r, color_vals[g])])
\* for r in color_vals: ...
CubeR == Flatten([r \in 1..Len(color_vals) |-> CubeG(color_vals[r])])

\* for x in range(8, 238+1, 10): yield (x, x, x)
GrayOf(xs) == [k \in 1..Len(xs) |-> <<xs[k], xs[k], xs[k]>>]
Gray == GrayOf(PyRange(8, 238 + 1, 10))

\* A faulty variant: the loops nested the other way round (blue outermost).
CubeSwapped ==
    Flatten([b \in 1..6 |-> Flatten([g \in 1..6 |->
        [r \in 1..6 |-> <<color_vals[r], color_vals[g], color_vals[b]>>]])])
xterm_non_system_colors_swapped == CubeSwapped \o Gray

\* A faulty variant: the gray ramp stops one step early (range(8, 238, 10)).
xterm_non_system_colors_short == CubeR \o GrayOf(PyRange(8, 238, 10))

xterm_non_system_colors == CubeR \o Gray

\* The candidates the model's cost matrix has columns for: the first
\* NumCands palette entries, in generator order, 0-based.
Cands == [j \in Range0(NumCands) |-> xterm_non_system_colors[j + 1]]
CandSet == {Cands[j] : j \in DOMAIN Cands}

-----------------------------------------------------------------------------
\* The cost matrix.

\* color_diff(c1, c2): the CIE2000 difference, read from the table.
color_diff(c1, c2) == delta[c1][c2]

\* xterm_diffs(hex_rgb): one difference per palette entry, in palette order.
xterm_diffs(hex_rgb) ==
    [j \in DOMAIN Cands |-> color_diff(hex_rgb, Cands[j])]

\* rgb_xterm_diff_matrix(hex_rgbs): one row per input colour, in input order.
rgb_xterm_diff_matrix(hs) ==
    [i \in Range0(Len(hs)) |-> xterm_diffs(hs[i + 1])]

-----------------------------------------------------------------------------
\* munkres.Munkres, the object built at xterm.py:9 and run at xterm.py:10.
\* A solver is a record of the instance's fields; every method is an
\* operator from the instance before to the instance after (and the next
\* step, where the method returns one).

PyLen(f) == Cardinality(DOMAIN f)

\* sys.maxsize, the start value of __find_smallest.
maxsize == 2147483647

\* Munkres.__init__
Munkres ==
    [C |-> << >>, n |-> 0, original_length |-> 0, original_width |-> 0,
     row_covered |-> << >>, col_covered |-> << >>,
     Z0_r |-> 0, Z0_c |-> 0, marked |-> << >>]

\* pad_matrix(matrix, 0): a square matrix of side max(rows, longest row),
\* the missing cells filled with 0.
pad_matrix(m) ==
    LET rows == PyLen(m)
        max_columns == IF rows = 0 THEN 0
                       ELSE CHOOSE w \in {PyLen(m[i]) : i \in DOMAIN m} :
                                \A i \in DOMAIN m : PyLen(m[i]) <= w
        total_rows == Max(max_columns, rows)
    IN  [i \in Range0(total_rows) |->
            [j \in Range0(total_rows) |->
                IF i < rows /\ j < PyLen(m[i]) THEN m[i][j] ELSE 0]]

\* compute, up to the step loop.  len(cost_matrix[0]) needs a first row.
compute_raises(cost_matrix) == PyLen(cost_matrix) = 0

compute_init(cost_matrix) ==
    LET C == pad_matrix(cost_matrix)
        n == PyLen(C)
    IN  [C |-> C, n |-> n,
         original_length |-> PyLen(cost_matrix),
         original_width |-> PyLen(cost_matrix[0]),
         row_covered |-> [i \in Range0(n) |-> FALSE],
         col_covered |-> [i \in Range0(n) |-> FALSE],
         Z0_r |-> 0, Z0_c |-> 0,
         marked |-> [i \in Range0(n) |-> [j \in Range0(n) |-> 0]]]

clear_covers(s) ==
    [s EXCEPT !.row_covered = [i \in Range0(s.n) |-> FALSE],
              !.col_covered = [i \in Range0(s.n) |-> FALSE]]

erase_primes(s) ==
    [s EXCEPT !.marked = [i \in Range0(s.n) |-> [j \in Range0(s.n) |->
                            IF s.marked[i][j] = 2 THEN 0 ELSE s.marked[i][j]]]]

\* A faulty variant: the row's first value is subtracted, not its minimum.
step1_first_column(s) ==
    [s EXCEPT !.C = [i \in Range0(s.n) |->
        [j \in Range0(s.n) |-> s.C[i][j] - s.C[i][0]]]]

\* __step1: subtract each row's minimum from the row.
step1(s) ==
    [s EXCEPT !.C = [i \in Range0(s.n) |->
        LET minval == Min({s.C[i][j] : j \in Range0(s.n)})
        IN  [j \in Range0(s.n) |-> s.C[i][j] - minval]]]

\* __step2: scan the cells row by row (cell k is row k div n, column k mod
\* n); star a zero whose row and column hold no star yet.
RECURSIVE step2_scan(_, _)
step2_scan(s, k) ==
    IF k >= s.n * s.n THEN s
    ELSE LET i == k \div s.n
             j == k % s.n
         IN  IF s.C[i][j] = 0 /\ ~s.col_covered[j] /\ ~s.row_covered[i]
             THEN step2_scan([s EXCEPT !.marked[i][j] = 1,
                                       !.col_covered[j] = TRUE,
                                       !.row_covered[i] = TRUE], k + 1)
             ELSE step2_scan(s, k + 1)

step2(s) == clear_covers(step2_scan(s, 0))

\* __step3: cover every column holding a star; count counts a star only
\* when its column was not covered before it, i.e. once per newly covered
\* column.  n covered columns end the loop (step 7).
step3_count(s) ==
    Cardinality({j \in Range0(s.n) :
        ~s.col_covered[j] /\ \E i \in Range0(s.n) : s.marked[i][j] = 1})

step3_next(s) == IF step3_count(s) >= s.n THEN 7 ELSE 4

step3(s) ==
    [s EXCEPT !.col_covered = [j \in Range0(s.n) |->
        s.col_covered[j] \/ \E i \in Range0(s.n) : s.marked[i][j] = 1]]

\* __find_a_zero: the rows are scanned from 0 and the scan ends after the
\* first row holding an uncovered zero; inside that row the column loop
\* runs to the end, so the last uncovered zero of the row is returned.
UncoveredZeros(s, i) ==
    {j \in Range0(s.n) : s.C[i][j] = 0 /\ ~s.row_covered[i] /\ ~s.col_covered[j]}

find_a_zero(s) ==
    LET rows == {i \in Range0(s.n) : UncoveredZeros(s, i) # {}}
    IN  IF rows = {} THEN <<-1, -1>>
        ELSE LET i == Min(rows)
             IN  <<i, CHOOSE j \in UncoveredZeros(s, i) :
                         \A k \in UncoveredZeros(s, i) : k <= j>>

\* The first column of `row` marked `mark`, -1 if none.
FirstInRow(s, row, mark) ==
    LET cols == {j \in Range0(s.n) : s.marked[PyIdx(row, s.n)][j] = mark}
    IN  IF cols = {} THEN -1 ELSE Min(cols)

find_star_in_row(s, row) == FirstInRow(s, row, 1)
find_prime_in_row(s, row) == FirstInRow(s, row, 2)

find_star_in_col(s, col) ==
    LET rows == {i \in Range0(s.n) : s.marked[i][PyIdx(col, s.n)] = 1}
    IN  IF rows = {} THEN -1 ELSE Min(rows)

\* __step4: prime uncovered zeros until one has no star in its row (step 5)
\* or none is left (step 6).
RECURSIVE step4_loop(_)
step4_loop(s) ==
    LET z == find_a_zero(s)
        row == z[1]
        col == z[2]
    IN  IF row < 0 THEN [s |-> s, next |-> 6]
        ELSE LET s1 == [s EXCEPT !.marked[row][col] = 2]
                 star_col == find_star_in_row(s1, row)
             IN  IF star_col >= 0
                 THEN step4_loop([s1 EXCEPT !.row_covered[row] = TRUE,
                                            !.col_covered[star_col] = FALSE])
                 ELSE [s |-> [s1 EXCEPT !.Z0_r = row, !.Z0_c = col],
                       next |-> 5]

step4(s) == step4_loop(s).s
step4_next(s) == step4_loop(s).next

\* __step5: the alternating path of primes and stars from Z0.  self.path
\* has 2n rows; a path that needs more raises IndexError (an empty
\* sequence here).
RECURSIVE step5_path(_, _)
step5_path(s, path) ==
    LET last == path[Len(path)]
        row == find_star_in_col(s, last[2])
    IN  IF row < 0 THEN path
        ELSE IF Len(path) + 2 > 2 * s.n THEN << >>
        ELSE step5_path(s, path \o <<
                 <<row, last[2]>>,
                 <<row, find_prime_in_row(s, row)>> >>)

\* __convert_path: unstar the stars and star the primes of the path.
RECURSIVE convert_path(_, _, _)
convert_path(s, path, i) ==
    IF i > Len(path) THEN s
    ELSE LET r == PyIdx(path[i][1], s.n)
             c == PyIdx(path[i][2], s.n)
         IN  convert_path(
                 [s EXCEPT !.marked[r][c] = IF s.marked[r][c] = 1 THEN 0 ELSE 1],
                 path, i + 1)

step5_raises(s) == step5_path(s, << <<s.Z0_r, s.Z0_c>> >>) = << >>

step5(s) ==
    LET path == step5_path(s, << <<s.Z0_r, s.Z0_c>> >>)
    IN  erase_primes(clear_covers(convert_path(s, path, 1)))

\* __find_smallest: the smallest uncovered value.
find_smallest(s) ==
    Min({maxsize} \cup {s.C[i][j] : i \in {r \in Range0(s.n) : ~s.row_covered[r]},
                                    j \in {c \in Range0(s.n) : ~s.col_covered[c]}})

\* __step6: add the smallest uncovered value to the covered rows and
\* subtract it from the uncovered columns.
step6(s) ==
    LET minval == find_smallest(s)
    IN  [s EXCEPT !.C = [i \in Range0(s.n) |-> [j \in Range0(s.n) |->
            s.C[i][j] + (IF s.row_covered[i] THEN minval ELSE 0)
                      - (IF ~s.col_covered[j] THEN minval ELSE 0)]]]

\* The end of compute: the starred cells of the original (unpadded) matrix,
\* row by row, as (row, column) pairs.
RECURSIVE results_scan(_, _)
results_scan(s, k) ==
    IF k >= s.original_length * s.original_width THEN << >>
    ELSE LET i == k \div s.original_width
             j == k % s.original_width
         IN  (IF s.marked[i][j] = 1 THEN << <<i, j>> >> ELSE << >>)
             \o results_scan(s, k + 1)

results(s) == results_scan(s, 0)

-----------------------------------------------------------------------------
\* format_scheme's keys and values.

HexDigits == <<"0", "1", "2", "3", "4", "5", "6", "7",
               "8", "9", "A", "B", "C", "D", "E", "F">>

\* 'base{:02X}-xterm'.format(base)
xterm_key(base) ==
    <<"base", HexDigits[((base \div 16) % 16) + 1], HexDigits[(base % 16) + 1], "-xterm">>

\* str(n) for n >= 0: the decimal digits, most significant first.
RECURSIVE str(_)
str(n) ==
    IF n < 10 THEN <<HexDigits[n + 1]>>
    ELSE str(n \div 10) \o <<HexDigits[(n % 10) + 1]>>

-----------------------------------------------------------------------------
\* One call of approx_xterm_colors, driven by format_scheme's loop.

\* A faulty variant: the cost matrix kept in one module-level variable.
MatrixOfShared(p) == 1
\* `matrix` is a local of the call.
MatrixOf(p) == p

\* A faulty variant: one module-level Munkres instance used by every call.
SolverOfShared(p) == 1
\* `m = munkres.Munkres()` is built by the call, for the call.
SolverOf(p) == p

\* matrix = rgb_xterm_diff_matrix(hex_rgbs); m = munkres.Munkres()
Call(p) ==
    /\ pc[p] = "start"
    /\ matrix' = [matrix EXCEPT ![MatrixOf(p)] = rgb_xterm_diff_matrix(hex_rgbs[p])]
    /\ solver' = [solver EXCEPT ![SolverOf(p)] = Munkres]
    /\ pc' = [pc EXCEPT ![p] = "compute"]
    /\ UNCHANGED <<delta, hex_rgbs, indexes, out, xterm, error>>
    /\ UNCHANGED bvars

\* m.compute(matrix), up to its step loop
Compute(p) ==
    /\ pc[p] = "compute"
    /\ IF compute_raises(matrix[MatrixOf(p)])
       THEN /\ pc' = [pc EXCEPT ![p] = "raised"]
            /\ error' = [error EXCEPT ![p] = "IndexError"]
            /\ UNCHANGED solver
       ELSE /\ solver' = [solver EXCEPT ![SolverOf(p)] =
                              compute_init(matrix[MatrixOf(p)])]
            /\ pc' = [pc EXCEPT ![p] = "step1"]
            /\ UNCHANGED error
    /\ UNCHANGED <<delta, hex_rgbs, matrix, indexes, out, xterm>>
    /\ UNCHANGED bvars

Step1(p) ==
    /\ pc[p] = "step1"
    /\ solver' = [solver EXCEPT ![SolverOf(p)] = step1(@)]
    /\ pc' = [pc EXCEPT ![p] = "step2"]
    /\ UNCHANGED <<delta, hex_rgbs, matrix, indexes, out, xterm, error>>
    /\ UNCHANGED bvars

Step2(p) ==
    /\ pc[p] = "step2"
    /\ solver' = [solver EXCEPT ![SolverOf(p)] = step2(@)]
    /\ pc' = [pc EXCEPT ![p] = "step3"]
    /\ UNCHANGED <<delta, hex_rgbs, matrix, indexes, out, xterm, error>>
    /\ UNCHANGED bvars

Step3(p) ==
    /\ pc[p] = "step3"
    /\ solver' = [solver EXCEPT ![SolverOf(p)] = step3(@)]
    /\ pc' = [pc EXCEPT ![p] =
                IF step3_next(solver[SolverOf(p)]) = 7 THEN "results" ELSE "step4"]
    /\ UNCHANGED <<delta, hex_rgbs, matrix, indexes, out, xterm, error>>
    /\ UNCHANGED bvars

Step4(p) ==
    /\ pc[p] = "step4"
    /\ solver' = [solver EXCEPT ![SolverOf(p)] = step4(@)]
    /\ pc' = [pc EXCEPT ![p] =
                IF step4_next(solver[SolverOf(p)]) = 5 THEN "step5" ELSE "step6"]
    /\ UNCHANGED <<delta, hex_rgbs, matrix, indexes, out, xterm, error>>
    /\ UNCHANGED bvars

Step5(p) ==
    /\ pc[p] = "step5"
    /\ IF step5_raises(solver[SolverOf(p)])
       THEN /\ pc' = [pc EXCEPT ![p] = "raised"]
            /\ error' = [error EXCEPT ![p] = "IndexError"]
            /\ UNCHANGED solver
       ELSE /\ solver' = [solver EXCEPT ![SolverOf(p)] = step5(@)]
            /\ pc' = [pc EXCEPT ![p] = "step3"]
            /\ UNCHANGED error
    /\ UNCHANGED <<delta, hex_rgbs, matrix, indexes, out, xterm>>
    /\ UNCHANGED bvars

Step6(p) ==
    /\ pc[p] = "step6"
    /\ solver' = [solver EXCEPT ![SolverOf(p)] = step6(@)]
    /\ pc' = [pc EXCEPT ![p] = "step4"]
    /\ UNCHANGED <<delta, hex_rgbs, matrix, indexes, out, xterm, error>>
    /\ UNCHANGED bvars

\* indexes = m.compute(matrix): the list compute returns
Results(p) ==
    /\ pc[p] = "results"
    /\ indexes' = [indexes EXCEPT ![p] = results(solver[SolverOf(p)])]
    /\ pc' = [pc EXCEPT ![p] = "yield"]
    /\ UNCHANGED <<delta, hex_rgbs, matrix, solver, out, xterm, error>>
    /\ UNCHANGED bvars

\* for _, column in indexes: yield column + 16
\* and, in format_scheme, for base, xterm_color in enumerate(...):
\*     scheme['base{:02X}-xterm'.format(base)] = str(xterm_color)
Yield(p) ==
    /\ pc[p] = "yield"
    /\ Len(out[p]) < Len(indexes[p])
    /\ LET base == Len(out[p])
           column == indexes[p][base + 1][2]
           xterm_color == column + 16
       IN  /\ out' = [out EXCEPT ![p] = Append(@, xterm_color)]
           /\ xterm' = [xterm EXCEPT ![p] =
                          [k \in DOMAIN @ \cup {xterm_key(base)} |->
                              IF k = xterm_key(base) THEN str(xterm_color) ELSE @[k]]]
    /\ UNCHANGED <<delta, pc, hex_rgbs, matrix, solver, indexes, error>>
    /\ UNCHANGED bvars

\* the generator is exhausted and format_scheme's loop ends
Return(p) ==
    /\ pc[p] = "yield"
    /\ Len(out[p]) = Len(indexes[p])
    /\ pc' = [pc EXCEPT ![p] = "done"]
    /\ UNCHANGED <<delta, hex_rgbs, matrix, solver, indexes, out, xterm, error>>
    /\ UNCHANGED bvars

Next ==
    \E p \in Procs :
        \/ Call(p)
        \/ Compute(p)
        \/ Step1(p)
        \/ Step2(p)
        \/ Step3(p)
        \/ Step4(p)
        \/ Step5(p)
        \/ Step6(p)
        \/ Results(p)
        \/ Yield(p)
        \/ Return(p)

\* build() has not been called.
BuildIdle ==
    /\ bpc = "idle"
    /\ template_dirs = {}
    /\ scheme_files = << >>
    /\ out_dir = [exists |-> FALSE, creatable |-> FALSE, writable |-> FALSE,
                  made |-> FALSE]
    /\ loaded = {}
    /\ job = << >>
    /\ written = {}
    /\ printed = FALSE
    /\ berror = ""

\* Every list of at most MaxLen input colours.
Inputs == UNION {[1..k -> Colors] : k \in 0..MaxLen}

\* Every table of colour differences 0..MaxCost.
Deltas == [Colors -> [CandSet -> 0..MaxCost]]

InitCalls(active) ==
    /\ delta \in Deltas
    /\ pc = [p \in Procs |-> IF p \in active THEN "start" ELSE "idle"]
    /\ matrix = [p \in Procs |-> << >>]
    /\ solver = [p \in Procs |-> Munkres]
    /\ indexes = [p \in Procs |-> << >>]
    /\ out = [p \in Procs |-> << >>]
    /\ xterm = [p \in Procs |-> << >>]
    /\ error = [p \in Procs |-> ""]
    /\ BuildIdle

\* One call, on any input list.
Init ==
    /\ InitCalls({1})
    /\ \E hs \in Inputs : hex_rgbs = [p \in Procs |-> IF p = 1 THEN hs ELSE << >>]

Spec == Init /\ [][Next]_vars

-----------------------------------------------------------------------------
\* build(), build_from_job_list() and the build_single jobs.

\* A faulty variant: LookupError only when templates and schemes are both missing.
nothing_to_build_both == template_dirs = {} /\ scheme_files = << >>
\* not template_dirs or not scheme_files
nothing_to_build == template_dirs = {} \/ scheme_files = << >>

Terminated(k) == job[k] \in {"done", "failed"}

\* A faulty variant: the pool is left as soon as one job has terminated.
pool_shut_down_any == \E k \in DOMAIN job : Terminated(k)
\* Leaving `with ProcessPoolExecutor() as executor` waits for every job.
pool_shut_down == \A k \in DOMAIN job : Terminated(k)

BuildRaise(e) ==
    /\ bpc' = "raised"
    /\ berror' = e

\* if not template_dirs or not scheme_files: raise LookupError
BuildCheck ==
    /\ bpc = "start"
    /\ IF nothing_to_build
       THEN BuildRaise("LookupError")
       ELSE bpc' = "makedirs" /\ UNCHANGED berror
    /\ UNCHANGED <<template_dirs, scheme_files, out_dir, loaded, job, written, printed>>
    /\ UNCHANGED xvars

\* try: os.makedirs(base_output_dir) except FileExistsError: pass
\* A directory that cannot be created makes os.makedirs raise
\* PermissionError itself.
BuildMakedirs ==
    /\ bpc = "makedirs"
    /\ IF out_dir.exists
       THEN bpc' = "access" /\ UNCHANGED <<out_dir, berror>>
       ELSE IF out_dir.creatable
            THEN /\ out_dir' = [out_dir EXCEPT !.exists = TRUE, !.made = TRUE]
                 /\ bpc' = "access"
                 /\ UNCHANGED berror
            ELSE BuildRaise("PermissionError") /\ UNCHANGED out_dir
    /\ UNCHANGED <<template_dirs, scheme_files, loaded, job, written, printed>>
    /\ UNCHANGED xvars

\* if not os.access(base_output_dir, os.W_OK): raise PermissionError
BuildAccess ==
    /\ bpc = "access"
    /\ IF ~out_dir.writable
       THEN BuildRaise("PermissionError")
       ELSE bpc' = "load" /\ UNCHANGED berror
    /\ UNCHANGED <<template_dirs, scheme_files, out_dir, loaded, job, written, printed>>
    /\ UNCHANGED xvars

\* templates = [TemplateGroup(path) for path in template_dirs]: one group
\* is constructed (its config.yaml and mustache files read)
LoadTemplate(path) ==
    /\ bpc = "load"
    /\ path \in template_dirs \ loaded
    /\ loaded' = loaded \cup {path}
    /\ UNCHANGED <<bpc, template_dirs, scheme_files, out_dir, job, written,
                   printed, berror>>
    /\ UNCHANGED xvars

\* ... or get_pystache_parsed cannot open a mustache file, and the
\* exception leaves build
LoadTemplateFails(path) ==
    /\ bpc = "load"
    /\ path \in template_dirs \ loaded
    /\ BuildRaise("FileNotFoundError")
    /\ UNCHANGED <<template_dirs, scheme_files, out_dir, loaded, job, written, printed>>
    /\ UNCHANGED xvars

\* build_from_job_list: executor.map(entry_func, scheme_files) submits one
\* job per entry of the list
Submit ==
    /\ bpc = "load"
    /\ loaded = template_dirs
    /\ job' = [k \in DOMAIN scheme_files |-> "pending"]
    /\ bpc' = "pool"
    /\ UNCHANGED <<template_dirs, scheme_files, out_dir, loaded, written,
                   printed, berror>>
    /\ UNCHANGED xvars

\* a free worker takes a pending job and calls build_single
JobStart(k) ==
    /\ bpc = "pool"
    /\ job[k] = "pending"
    /\ Cardinality({j \in DOMAIN job : job[j] = "running"}) < MaxWorkers
    /\ job' = [job EXCEPT ![k] = "running"]
    /\ UNCHANGED <<bpc, template_dirs, scheme_files, out_dir, loaded, written,
                   printed, berror>>
    /\ UNCHANGED xvars

\* build_single: the file of one template group is rendered and written
JobWrite(k, g) ==
    /\ job[k] = "running"
    /\ g \in loaded
    /\ <<k, g>> \notin written
    /\ written' = written \cup {<<k, g>>}
    /\ UNCHANGED <<bpc, template_dirs, scheme_files, out_dir, loaded, job,
                   printed, berror>>
    /\ UNCHANGED xvars

\* build_single returns
JobDone(k) ==
    /\ job[k] = "running"
    /\ \A g \in loaded : <<k, g>> \in written
    /\ job' = [job EXCEPT ![k] = "done"]
    /\ UNCHANGED <<bpc, template_dirs, scheme_files, out_dir, loaded, written,
                   printed, berror>>
    /\ UNCHANGED xvars

\* build_single raises (a scheme file without a base colour, a file that
\* cannot be opened): the exception is kept in the job's future, which
\* nobody reads
JobRaises(k) ==
    /\ job[k] = "running"
    /\ job' = [job EXCEPT ![k] = "failed"]
    /\ UNCHANGED <<bpc, template_dirs, scheme_files, out_dir, loaded, written,
                   printed, berror>>
    /\ UNCHANGED xvars

\* the with block is left; print('Finished building process.')
Finish ==
    /\ bpc = "pool"
    /\ pool_shut_down
    /\ printed' = TRUE
    /\ bpc' = "finished"
    /\ UNCHANGED <<template_dirs, scheme_files, out_dir, loaded, job, written, berror>>
    /\ UNCHANGED xvars

NextBuild ==
    \/ BuildCheck
    \/ BuildMakedirs
    \/ BuildAccess
    \/ \E path \in TemplateDirs : LoadTemplate(path)
    \/ \E path \in TemplateDirs : LoadTemplateFails(path)
    \/ Submit
    \/ \E k \in DOMAIN job : JobStart(k)
    \/ \E k \in DOMAIN job : \E g \in TemplateDirs : JobWrite(k, g)
    \/ \E k \in DOMAIN job : JobDone(k)
    \/ \E k \in DOMAIN job : JobRaises(k)
    \/ Finish

\* No call of approx_xterm_colors is followed.
XtermIdle ==
    /\ delta = [c \in Colors |-> [x \in CandSet |-> 0]]
    /\ pc = [p \in Procs |-> "idle"]
    /\ hex_rgbs = [p \in Procs |-> << >>]
    /\ matrix = [p \in Procs |-> << >>]
    /\ solver = [p \in Procs |-> Munkres]
    /\ indexes = [p \in Procs |-> << >>]
    /\ out = [p \in Procs |-> << >>]
    /\ xterm = [p \in Procs |-> << >>]
    /\ error = [p \in Procs |-> ""]

\* build() is called in any environment: some template directories, some
\* scheme files, an output directory that exists or not, can be created or
\* not, is writable or not.
InitBuild ==
    /\ XtermIdle
    /\ bpc = "start"
    /\ template_dirs \in SUBSET TemplateDirs
    /\ \E n \in 0..MaxSchemes : scheme_files = [k \in 1..n |-> k]
    /\ out_dir \in [exists : BOOLEAN, creatable : BOOLEAN, writable : BOOLEAN,
                    made : {FALSE}]
    /\ loaded = {}
    /\ job = << >>
    /\ written = {}
    /\ printed = FALSE
    /\ berror = ""

SpecBuild == InitBuild /\ [][NextBuild]_vars

\* Two concurrent calls (two schemes built by two pool workers), each on
\* any input list with as many colours as there are columns.
ParInputs == [1..NumCands -> Colors]

\* The tables the concurrent calls are run on: differences 0 and 1, which
\* suffice for every step of the solver to be taken.
ParDeltas == [Colors -> [CandSet -> {0, 1}]]

InitPar ==
    /\ InitCalls(Procs)
    /\ delta \in ParDeltas
    /\ hex_rgbs \in [Procs -> ParInputs]

SpecPar == InitPar /\ [][Next]_vars

-----------------------------------------------------------------------------
\* Definitions the properties are stated with.

Ended(p) == pc[p] \in {"done", "raised"}
Returned(p) == pc[p] \in {"yield", "done"}

\* Every assignment of each of n rows to a column of its own among m.
Assignments(n, m) ==
    {f \in [Range0(n) -> Range0(m)] : \A a, b \in Range0(n) : a # b => f[a] # f[b]}

RECURSIVE SumTo(_, _)
SumTo(f, k) == IF k = 0 THEN 0 ELSE f[k - 1] + SumTo(f, k - 1)

\* The summed cost of assignment f on matrix M.
AssignmentCost(M, f) == SumTo([i \in DOMAIN f |-> M[i][f[i]]], PyLen(f))

\* The least summed cost over every complete assignment (exhaustive).
MinCost(M, m) ==
    Min({AssignmentCost(M, f) : f \in Assignments(PyLen(M), m)})

\* The summed cost of the (row, column) pairs compute returned.
RECURSIVE PairsCost(_, _)
PairsCost(M, pairs) ==
    IF pairs = << >> THEN 0
    ELSE M[Head(pairs)[1]][Head(pairs)[2]] + PairsCost(M, Tail(pairs))

\* The call run alone, from the input to its last state: the same methods,
\* applied in the order compute's loop applies them.
RECURSIVE RunSteps(_, _)
RunSteps(s, step) ==
    CASE step = 1 -> RunSteps(step1(s), 2)
      [] step = 2 -> RunSteps(step2(s), 3)
      [] step = 3 -> RunSteps(step3(s), step3_next(s))
      [] step = 4 -> RunSteps(step4(s), step4_next(s))
      [] step = 5 -> IF step5_raises(s) THEN [raised |-> TRUE, s |-> s]
                     ELSE RunSteps(step5(s), 3)
      [] step = 6 -> RunSteps(step6(s), 4)
      [] OTHER -> [raised |-> FALSE, s |-> s]

Alone(hs) ==
    LET M == rgb_xterm_diff_matrix(hs)
    IN  IF compute_raises(M) THEN [raised |-> TRUE, out |-> << >>]
        ELSE LET r == RunSteps(compute_init(M), 1)
                 res == results(r.s)
             IN  IF r.raised THEN [raised |-> TRUE, out |-> << >>]
                 ELSE [raised |-> FALSE,
                       out |-> [k \in 1..Len(res) |-> res[k][2] + 16]]

-----------------------------------------------------------------------------
\* C1: for every input list of N colours, 0 <= N <= 240 (here: at most the
\* NumCands columns), approx_xterm_colors yields exactly N integers, each in
\* 16..255, no integer twice.  Stated of the ended call; the empty list
\* refutes it, since compute raises IndexError on a matrix without rows.
C1_YieldsNDistinctInRange ==
    \A p \in Procs :
        (Ended(p) /\ Len(hex_rgbs[p]) <= NumCands) =>
            /\ pc[p] = "done"
            /\ Len(out[p]) = Len(hex_rgbs[p])
            /\ \A k \in 1..Len(out[p]) : out[p][k] \in 16..255
            /\ \A k, l \in 1..Len(out[p]) : k # l => out[p][k] # out[p][l]

\* The same for the lists the code serves, 1 <= N <= columns.
NonEmptyYieldsNDistinctInRange ==
    \A p \in Procs :
        (Ended(p) /\ Len(hex_rgbs[p]) \in 1..NumCands) =>
            /\ pc[p] = "done"
            /\ Len(out[p]) = Len(hex_rgbs[p])
            /\ \A k \in 1..Len(out[p]) : out[p][k] \in 16..(15 + NumCands)
            /\ \A k, l \in 1..Len(out[p]) : k # l => out[p][k] # out[p][l]

\* C2: for every cost matrix with rows <= columns (and at least one row, so
\* that compute returns), the pairs compute returns assign every row, and
\* their summed cost is the minimum over all assignments of every row to a
\* column of its own, found by exhaustive enumeration.
C2_Optimal ==
    \A p \in Procs :
        (Returned(p) /\ Len(hex_rgbs[p]) <= NumCands) =>
            /\ Len(indexes[p]) = Len(hex_rgbs[p])
            /\ PairsCost(matrix[MatrixOf(p)], indexes[p])
                   = MinCost(matrix[MatrixOf(p)], NumCands)

\* A returned call whose two rows both have their only minimum in column 0:
\* taking each row's cheapest column is no assignment.
C2_Witness ==
    /\ pc[1] = "done"
    /\ Len(hex_rgbs[1]) = 2
    /\ \A i \in {0, 1} : \A j \in 1..(NumCands - 1) : matrix[1][i][0] < matrix[1][i][j]
    /\ matrix[1][0] # matrix[1][1]

\* C3: with more input colours than columns the assignment step raises and
\* delivers no index to the caller.  The code pads the matrix with zero
\* columns, solves it and returns the pairs of the rows that got a real
\* column, so values are yielded.
C3_TooManyRowsDeliversNothing ==
    \A p \in Procs :
        Len(hex_rgbs[p]) > NumCands => (out[p] = << >> /\ pc[p] # "done")

\* C4: the output is aligned with the input: row i of the matrix is built
\* from input colour i, the i-th value yielded is 16 plus the column starred
\* in row i, and format_scheme stores it, as a string, under base<i>-xterm.
Aligned(p) ==
    \A i \in Range0(Len(hex_rgbs[p])) :
        /\ matrix[MatrixOf(p)][i] = xterm_diffs(hex_rgbs[p][i + 1])
        /\ i + 1 \in DOMAIN out[p]
        /\ \E j \in Range0(NumCands) :
              /\ solver[SolverOf(p)].marked[i][j] = 1
              /\ out[p][i + 1] = 16 + j
              /\ xterm_key(i) \in DOMAIN xterm[p]
              /\ xterm[p][xterm_key(i)] = str(16 + j)

C4_PositionallyAligned == \A p \in Procs : pc[p] = "done" => Aligned(p)

\* The alignment for the lists that fit the columns (format_scheme's 16
\* colours against 240 columns).
AlignedWithinCapacity ==
    \A p \in Procs :
        (pc[p] = "done" /\ Len(hex_rgbs[p]) <= NumCands) => Aligned(p)

\* C5: the palette is in the contracted order: entry k (0-based) of the
\* first 216 is (L[k div 36], L[(k div 6) mod 6], L[k mod 6]) with
\* L = [0, 95, 135, 175, 215, 255], entry 216 + k is the gray 8 + 10k for
\* k in 0..23; so column j of every cost matrix built is the difference to
\* that entry, and the number yielded for it is 16 + j.
ContractedEntry(k) ==
    IF k < 216
    THEN <<color_vals[(k \div 36) + 1], color_vals[((k \div 6) % 6) + 1],
           color_vals[(k % 6) + 1]>>
    ELSE <<8 + 10 * (k - 216), 8 + 10 * (k - 216), 8 + 10 * (k - 216)>>

PaletteInContractedOrder ==
    \A k \in 0..239 :
        /\ k + 1 \in DOMAIN xterm_non_system_colors
        /\ xterm_non_system_colors[k + 1] = ContractedEntry(k)

C5_ContractedOrder ==
    /\ PaletteInContractedOrder
    /\ \A p \in Procs : \A i \in DOMAIN matrix[p] : \A j \in DOMAIN matrix[p][i] :
          matrix[p][i][j] \in {delta[c][ContractedEntry(j)] : c \in Colors}

\* A call that was given column 1, the palette's second entry (0, 0, 95),
\* as 17.
C5_Witness ==
    /\ pc[1] = "done"
    /\ \E k \in DOMAIN out[1] : out[1][k] = 17
    /\ Cands[1] = <<0, 0, 95>>
    /\ xterm_non_system_colors[217] = <<8, 8, 8>>

\* C6: the generator returns exactly 240 entries, numbered 16..255 in
\* increasing order by their position, and no RGB triple twice; so the
\* columns of every matrix built are distinct colours.
PaletteHas240DistinctEntries ==
    /\ Len(xterm_non_system_colors) = 240
    /\ {15 + k : k \in DOMAIN xterm_non_system_colors} = 16..255
    /\ Cardinality({xterm_non_system_colors[k] : k \in DOMAIN xterm_non_system_colors})
           = Len(xterm_non_system_colors)

C6_PaletteShape ==
    /\ PaletteHas240DistinctEntries
    /\ \A p \in Procs : \A i \in DOMAIN matrix[p] :
          PyLen(matrix[p][i]) = Cardinality(CandSet)

\* A matrix was built from the palette, whose gray ramp (8, 18, .. 238)
\* runs between the cube's grays without meeting one (95 is no ramp value).
C6_Witness ==
    /\ pc[1] = "done"
    /\ Len(hex_rgbs[1]) = NumCands
    /\ xterm_non_system_colors[240] = <<238, 238, 238>>
    /\ \E k \in 1..216 : xterm_non_system_colors[k] = <<95, 95, 95>>

C8_SameAsAlone ==
    \A p \in Procs :
        Ended(p) =>
            /\ (pc[p] = "raised") = Alone(hex_rgbs[p]).raised
            /\ out[p] = Alone(hex_rgbs[p]).out

\* Call 1 has ended with its values while call 2, on another input, is in
\* the middle of its solver loop.
C8_Witness ==
    /\ pc[1] = "done"
    /\ pc[2] = "step5"
    /\ hex_rgbs[1] # hex_rgbs[2]
    /\ Len(out[1]) = NumCands

-----------------------------------------------------------------------------
\* Properties of build().

ChecksPassed ==
    \/ bpc \in {"load", "pool", "finished"}
    \/ bpc = "raised" /\ berror \notin {"LookupError", "PermissionError"}

\* C9: build starts jobs only after its checks have passed.  Without a
\* template directory or a scheme file it raises LookupError, before the
\* output directory is created; with an output directory that is not
\* writable it raises PermissionError; in both cases no template group is
\* loaded, no job submitted and no output file written.
NoInput == template_dirs = {} \/ scheme_files = << >>

C9_ChecksBeforeJobs ==
    /\ (NoInput /\ bpc # "start") =>
           (bpc = "raised" /\ berror = "LookupError" /\ ~out_dir.made)
    /\ (~out_dir.writable /\ bpc \notin {"start", "makedirs", "access"}) =>
           (bpc = "raised" /\ berror \in {"LookupError", "PermissionError"})
    /\ berror \in {"LookupError", "PermissionError"} =>
           (loaded = {} /\ job = << >> /\ written = {} /\ ~printed)
    /\ (loaded # {} \/ job # << >> \/ written # {}) =>
           (~NoInput /\ out_dir.exists /\ out_dir.writable)

\* build raised PermissionError on an output directory it created itself
\* and found not writable, templates and scheme files being there.
C9_Witness ==
    /\ bpc = "raised"
    /\ berror = "PermissionError"
    /\ out_dir.made
    /\ template_dirs # {}
    /\ scheme_files # << >>

\* C10, as stated: once build has passed its checks, a job is submitted for
\* every scheme file, build prints and returns after every job has
\* terminated, and does not raise.  Stated of the ended build.
C10_JobsForEverySchemeOnceChecked ==
    (ChecksPassed /\ bpc \in {"finished", "raised"}) =>
        /\ bpc = "finished"
        /\ printed
        /\ DOMAIN job = DOMAIN scheme_files
        /\ \A k \in DOMAIN job : Terminated(k)

\* C10, amended: once build has passed its checks and constructed every
\* template group, one job is submitted for every scheme file; build prints
\* and returns only after every submitted job has terminated; a job that
\* raised neither keeps another job from running nor makes build raise.
C10_JobsForEverySchemeOnceLoaded ==
    /\ bpc \in {"pool", "finished"} =>
           (loaded = template_dirs /\ DOMAIN job = DOMAIN scheme_files)
    /\ (ChecksPassed /\ bpc = "raised") =>
           (berror = "FileNotFoundError" /\ job = << >> /\ loaded # template_dirs)
    /\ (printed \/ bpc = "finished") =>
           (printed /\ bpc = "finished" /\ \A k \in DOMAIN job : Terminated(k))
    /\ (\E k \in DOMAIN job : job[k] = "failed") =>
           /\ bpc # "raised" /\ berror = ""
           /\ \A j \in DOMAIN job :
                 /\ job[j] = "running" => ENABLED (JobDone(j) \/ JobRaises(j)
                                            \/ \E g \in TemplateDirs : JobWrite(j, g))
                 /\ (job[j] = "pending"
                     /\ Cardinality({i \in DOMAIN job : job[i] = "running"}) < MaxWorkers)
                        => ENABLED JobStart(j)

\* build has printed its last line after one job raised and another, which
\* started after that, wrote its files and returned.
C10_Witness ==
    /\ bpc = "finished" /\ printed
    /\ \E k, j \in DOMAIN job :
          /\ job[k] = "failed"
          /\ job[j] = "done"
          /\ \A g \in loaded : <<j, g>> \in written
          /\ \E g \in loaded : <<k, g>> \notin written
    /\ Len(scheme_files) = MaxSchemes

=============================================================================
